---- MODULE Spec2Model ----
(***************************************************************************)
(* CameraView (src/astroprint/static/js/app/views/camera.js): the camera   *)
(* streaming session logic of AstroBox, as a state machine.                *)
(*                                                                         *)
(* The view's fields and CSS state class are the shared state.  Every call *)
(* of startStreaming opens one attempt: a closure (settings, janus) and a  *)
(* chain of callbacks.  The backend (REST) and the gateway (Janus) are the *)
(* environment: they answer each request with success or failure and, once *)
(* a plugin handle is attached, deliver messages, remote streams and       *)
(* cleanup notifications at any time.  The stored camera setting          *)
(* (encoding) is one value for the whole run; whether #remotevideo is      *)
(* visible at the join is left open, as the style sheet decides it.        *)
(*                                                                         *)
(* calls counts the requests issued; thrown and seen record exceptions     *)
(* and outcomes that leave no other trace in the view.                     *)
(*                                                                         *)
(* The Janus 'destroyed' callback (line 175) runs only when the gateway    *)
(* session is destroyed, which nothing in camera.js requests, so it has no *)
(* action here.  The handler of lines 86-100 is assigned to a property of  *)
(* this.streamingPlugin, which is undefined: the assignment throws and the *)
(* handler is never installed, so it has no action either.                 *)
(***************************************************************************)
EXTENDS Integers, FiniteSets, Sequences, TLC

\* Bounds of the model.
MaxStarts == 2          \* clicks on the start button
MaxStops == 2           \* clicks on the stop button
MaxEvents == 2          \* inbound messages and remote streams delivered

NULL == 0               \* JavaScript null / undefined

Attempts == 1..MaxStarts

\* settings.encoding as returned by GET settings/camera/streaming: "h264" and
\* one value that is not
Encodings == {"h264", "vp8"}

\* What an inbound message carries in msg["result"]
Results == {"none", "stopped", "other"}

\* Requests issued to the backend and to the gateway
BackendOps == {"fetchStreamingSettings", "initGatewaySession", "startPeerSession",
               "startStreamingBridge", "closePeerSession"}
GatewayOps == {"connect", "attach", "watch", "createAnswer", "start", "stop", "hangup"}
Ops == BackendOps \cup GatewayOps

VARIABLES
  encoding,         \* the camera's stored streaming setting (backend side)
  state,            \* CSS state class of #camera-view
  localSessionId,   \* this.localSessionId
  streamingPlugIn,  \* this.streamingPlugIn
  sessionId,        \* this.sessionId
  streamingState,   \* global streamingState
  pc,               \* per attempt: position of its callback chain
  settings,         \* per attempt: response of the settings request
  session,          \* per attempt: response of the init-janus request
  selectedStream,   \* per attempt: var selectedStream
  watchId,          \* per attempt: id carried by the watch request it sent
  answers,          \* createAnswer calls not yet answered
  bridge,           \* start-streaming requests not yet answered
  playingBound,     \* "playing" handlers bound on #remotevideo
  calls,            \* requests issued so far, per operation
  thrown,           \* places where an exception was thrown
  seen,             \* seen so far: "bridgeFail", "playing", "cleanup", "stopInStreaming",
                    \* "errorNotice" (the notice of line 121)
  nStarts, nStops, nEvents

vars == <<encoding, state, localSessionId, streamingPlugIn, sessionId, streamingState, pc,
          settings, session, selectedStream, watchId, answers, bridge,
          playingBound, calls, thrown, seen, nStarts, nStops, nEvents>>

viewVars == <<state, localSessionId, streamingPlugIn, sessionId, streamingState>>

\* what only the environment holds
envVars == <<encoding>>

\* this.streamingPlugin (lower-case i): a property nothing ever assigns
streamingPlugin == NULL

Inc(c, op) == [c EXCEPT ![op] = @ + 1]

Init ==
  /\ encoding \in Encodings
  /\ state \in {"ready", "nowebrtc"}
  /\ localSessionId = NULL
  /\ streamingPlugIn = NULL
  /\ sessionId = NULL
  /\ streamingState = "unset"
  /\ pc = [a \in Attempts |-> "none"]
  /\ settings = [a \in Attempts |-> "none"]
  /\ session = [a \in Attempts |-> "none"]
  /\ selectedStream = [a \in Attempts |-> NULL]
  /\ watchId = [a \in Attempts |-> NULL]
  /\ answers = 0
  /\ bridge = 0
  /\ playingBound = 0
  /\ calls = [op \in Ops |-> 0]
  /\ thrown = {}
  /\ seen = {}
  /\ nStarts = 0
  /\ nStops = 0
  /\ nEvents = 0

\* setState(state): replaces the state class
setState(s) == state' = s

\* initJanus(): this.sessionId = null
initJanus == sessionId' = NULL

----
\* startStreaming, lines 40-51: no guard; sets 'preparing' and issues both requests
startStreaming ==
  /\ nStarts < MaxStarts
  /\ nStarts' = nStarts + 1
  /\ setState("preparing")
  /\ pc' = [pc EXCEPT ![nStarts + 1] = "join"]
  /\ settings' = [settings EXCEPT ![nStarts + 1] = "pending"]
  /\ session' = [session EXCEPT ![nStarts + 1] = "pending"]
  /\ calls' = Inc(Inc(calls, "fetchStreamingSettings"), "initGatewaySession")
  /\ UNCHANGED <<encoding, localSessionId, streamingPlugIn, sessionId, streamingState,
                 selectedStream, watchId, answers, bridge, playingBound, thrown,
                 seen, nStops, nEvents>>

\* $.when(...).done, lines 52-57 and 177: create the gateway session unless
\* #remotevideo is visible (visibility is decided by the page's style sheet)
JoinDone(a, visible) ==
  /\ pc' = [pc EXCEPT ![a] = IF visible THEN "skipped" ELSE "connecting"]
  /\ calls' = IF visible THEN calls ELSE Inc(calls, "connect")
  /\ UNCHANGED sessionId

\* $.when(...).fail, lines 179-183
JoinFail(a) ==
  /\ pc' = [pc EXCEPT ![a] = "joinFailed"]
  /\ initJanus
  /\ UNCHANGED calls

\* response of GET settings/camera/streaming
SettingsResponse(a, ok) ==
  /\ settings[a] = "pending"
  /\ settings' = [settings EXCEPT ![a] = IF ok THEN encoding ELSE "fail"]
  /\ IF pc[a] # "join" THEN UNCHANGED <<pc, calls, sessionId>>
     ELSE IF ~ok THEN JoinFail(a)
     ELSE IF session[a] = "ok" THEN \E visible \in BOOLEAN : JoinDone(a, visible)
     ELSE UNCHANGED <<pc, calls, sessionId>>
  /\ UNCHANGED <<encoding, state, localSessionId, streamingPlugIn, streamingState, session,
                 selectedStream, watchId, answers, bridge, playingBound, thrown,
                 seen, nStarts, nStops, nEvents>>

\* response of POST camera/init-janus
InitResponse(a, ok) ==
  /\ session[a] = "pending"
  /\ session' = [session EXCEPT ![a] = IF ok THEN "ok" ELSE "fail"]
  /\ IF pc[a] # "join" THEN UNCHANGED <<pc, calls, sessionId>>
     ELSE IF ~ok THEN JoinFail(a)
     ELSE IF settings[a] \in Encodings THEN \E visible \in BOOLEAN : JoinDone(a, visible)
     ELSE UNCHANGED <<pc, calls, sessionId>>
  /\ UNCHANGED <<encoding, state, localSessionId, streamingPlugIn, streamingState, settings,
                 selectedStream, watchId, answers, bridge, playingBound, thrown,
                 seen, nStarts, nStops, nEvents>>

\* new Janus({success}), lines 60-69: request the peer session
JanusSuccess(a) ==
  /\ pc[a] = "connecting"
  /\ pc' = [pc EXCEPT ![a] = "peerRequested"]
  /\ calls' = Inc(calls, "startPeerSession")
  /\ UNCHANGED <<encoding, viewVars, settings, session, selectedStream, watchId, answers,
                 bridge, playingBound, thrown, seen, nStarts, nStops, nEvents>>

\* new Janus({error}), lines 167-174
JanusError(a) ==
  /\ pc[a] = "connecting"
  /\ pc' = [pc EXCEPT ![a] = "connectFailed"]
  /\ streamingState' = IF state # "ready" THEN "stopped" ELSE streamingState
  /\ UNCHANGED <<encoding, state, localSessionId, streamingPlugIn, sessionId, settings,
                 session, selectedStream, watchId, answers, bridge, playingBound,
                 calls, thrown, seen, nStarts, nStops, nEvents>>

\* start-peer-session .done, lines 70-81: the backend issues PeerSessionId a
PeerSessionDone(a) ==
  /\ pc[a] = "peerRequested"
  /\ pc' = [pc EXCEPT ![a] = "attaching"]
  /\ localSessionId' = a
  /\ selectedStream' = [selectedStream EXCEPT
                          ![a] = IF settings[a] = "h264" THEN 1 ELSE 2]
  /\ calls' = Inc(calls, "attach")
  /\ UNCHANGED <<encoding, state, streamingPlugIn, sessionId, streamingState, settings,
                 session, watchId, answers, bridge, playingBound, thrown, seen,
                 nStarts, nStops, nEvents>>

\* start-peer-session fails: the request has no fail handler (lines 62-70)
PeerSessionFail(a) ==
  /\ pc[a] = "peerRequested"
  /\ pc' = [pc EXCEPT ![a] = "peerFailed"]
  /\ UNCHANGED <<encoding, viewVars, settings, session, selectedStream, watchId, answers,
                 bridge, playingBound, calls, thrown, seen, nStarts, nStops,
                 nEvents>>

\* janus.attach({success}), lines 82-104: the gateway hands out handle a.
\* Line 85 assigns to this.streamingPlugin.oncleanup and throws when that
\* property is undefined; lines 102-103 send the watch request.
AttachSuccess(a) ==
  /\ pc[a] = "attaching"
  /\ pc' = [pc EXCEPT ![a] = "attached"]
  /\ streamingPlugIn' = a
  /\ IF streamingPlugin = NULL
     THEN /\ thrown' = thrown \cup {"attachSuccess"}
          /\ UNCHANGED <<calls, watchId>>
     ELSE /\ calls' = Inc(calls, "watch")
          /\ watchId' = [watchId EXCEPT ![a] = selectedStream[a]]
          /\ UNCHANGED thrown
  /\ UNCHANGED <<encoding, state, localSessionId, sessionId, streamingState, settings,
                 session, selectedStream, answers, bridge, playingBound, seen,
                 nStarts, nStops, nEvents>>

\* janus.attach({error}), lines 105-108: logs and shows a notice
AttachError(a) ==
  /\ pc[a] = "attaching"
  /\ pc' = [pc EXCEPT ![a] = "attachFailed"]
  /\ UNCHANGED <<encoding, viewVars, settings, session, selectedStream, watchId, answers,
                 bridge, playingBound, calls, thrown, seen, nStarts, nStops,
                 nEvents>>

----
\* stopStreaming without the test of line 188
StopGuardOmitted == TRUE

\* stopStreaming, line 188: if (this.localSessionId)
StopGuard == localSessionId # NULL

\* stopStreaming, line 191: this.streamingPlugIn.send throws on a null handle
StopThrows == StopGuard /\ streamingPlugIn = NULL

\* stopStreaming, lines 188-193: the stop request and the hangup.  The
\* close-peer-session request of lines 194-208 is commented out.
StopCalls(c) ==
  IF StopGuard /\ ~StopThrows THEN Inc(Inc(c, "stop"), "hangup") ELSE c

\* stopStreaming as the click handler of the stop button, lines 185-211
stopStreaming ==
  /\ nStops < MaxStops
  /\ nStops' = nStops + 1
  /\ calls' = StopCalls(calls)
  /\ thrown' = IF StopThrows THEN thrown \cup {"stopStreaming"} ELSE thrown
  /\ seen' = IF state = "streaming" /\ StopGuard /\ ~StopThrows
             THEN seen \cup {"stopInStreaming"} ELSE seen
  /\ UNCHANGED <<encoding, viewVars, pc, settings, session, selectedStream, watchId,
                 answers, bridge, playingBound, nStarts, nEvents>>

\* onmessage with the stopStreaming call of line 122 left out
onmessageErrorNotStopped(a, result, error, jsep) ==
  /\ pc[a] = "attached"
  /\ nEvents < MaxEvents
  /\ nEvents' = nEvents + 1
  /\ LET stopCalled == result = "stopped"
         aborted == stopCalled /\ StopThrows
         returned == result = "none" /\ error
         answer == jsep /\ ~aborted /\ ~returned
         c1 == IF stopCalled THEN StopCalls(calls) ELSE calls
     IN /\ calls' = IF answer THEN Inc(c1, "createAnswer") ELSE c1
        /\ answers' = IF answer THEN answers + 1 ELSE answers
        /\ thrown' = IF aborted THEN thrown \cup {"stopStreaming"} ELSE thrown
        /\ seen' = IF returned THEN seen \cup {"errorNotice"} ELSE seen
  /\ UNCHANGED <<encoding, viewVars, pc, settings, session, selectedStream, watchId,
                 bridge, playingBound, nStarts, nStops>>

\* onmessage, lines 109-145.  result: msg["result"]; error: msg["error"] is
\* set; jsep: an SDP offer comes with the message.
onmessage(a, result, error, jsep) ==
  /\ pc[a] = "attached"
  /\ nEvents < MaxEvents
  /\ nEvents' = nEvents + 1
  /\ LET stopCalled == result = "stopped" \/ (result = "none" /\ error)
         aborted == stopCalled /\ StopThrows
         returned == result = "none" /\ error
         answer == jsep /\ ~aborted /\ ~returned
         c1 == IF stopCalled THEN StopCalls(calls) ELSE calls
     IN /\ calls' = IF answer THEN Inc(c1, "createAnswer") ELSE c1
        /\ answers' = IF answer THEN answers + 1 ELSE answers
        /\ thrown' = IF aborted THEN thrown \cup {"stopStreaming"} ELSE thrown
        /\ seen' = IF returned THEN seen \cup {"errorNotice"} ELSE seen
  /\ UNCHANGED <<encoding, viewVars, pc, settings, session, selectedStream, watchId,
                 bridge, playingBound, nStarts, nStops>>

\* createAnswer({success}), lines 133-138: send the start request
CreateAnswerSuccess ==
  /\ answers > 0
  /\ answers' = answers - 1
  /\ calls' = Inc(calls, "start")
  /\ UNCHANGED <<encoding, viewVars, pc, settings, session, selectedStream, watchId,
                 bridge, playingBound, thrown, seen, nStarts, nStops, nEvents>>

\* createAnswer({error}), lines 139-142: the callback is not bound to the
\* view, so this.setState is not a function and the call throws
CreateAnswerError ==
  /\ answers > 0
  /\ answers' = answers - 1
  /\ thrown' = thrown \cup {"createAnswerError"}
  /\ UNCHANGED <<encoding, viewVars, pc, settings, session, selectedStream, watchId,
                 bridge, playingBound, calls, seen, nStarts, nStops, nEvents>>

\* onremotestream, lines 146-161: request the bridge, bind "playing", attach
onremotestream(a) ==
  /\ pc[a] = "attached"
  /\ nEvents < MaxEvents
  /\ nEvents' = nEvents + 1
  /\ calls' = Inc(calls, "startStreamingBridge")
  /\ bridge' = bridge + 1
  /\ playingBound' = playingBound + 1
  /\ UNCHANGED <<encoding, viewVars, pc, settings, session, selectedStream, watchId,
                 answers, thrown, seen, nStarts, nStops>>

\* start-streaming succeeds: the request has no done handler (lines 150-154)
BridgeDone ==
  /\ bridge > 0
  /\ bridge' = bridge - 1
  /\ UNCHANGED <<encoding, viewVars, pc, settings, session, selectedStream, watchId,
                 answers, playingBound, calls, thrown, seen, nStarts, nStops,
                 nEvents>>

\* start-streaming .fail, line 154
BridgeFail ==
  /\ bridge > 0
  /\ bridge' = bridge - 1
  /\ setState("error")
  /\ seen' = seen \cup {"bridgeFail"}
  /\ UNCHANGED <<encoding, localSessionId, streamingPlugIn, sessionId, streamingState, pc,
                 settings, session, selectedStream, watchId, answers,
                 playingBound, calls, thrown, nStarts, nStops, nEvents>>

\* the "playing" handlers bound at lines 156-159
playing ==
  /\ playingBound > 0
  /\ setState("streaming")
  /\ seen' = seen \cup {"playing"}
  /\ UNCHANGED <<encoding, localSessionId, streamingPlugIn, sessionId, streamingState, pc,
                 settings, session, selectedStream, watchId, answers, bridge,
                 playingBound, calls, thrown, nStarts, nStops, nEvents>>

\* janus.attach({oncleanup}), lines 162-164: logs the notification
oncleanup(a) ==
  /\ pc[a] = "attached"
  /\ seen' = seen \cup {"cleanup"}
  /\ UNCHANGED <<encoding, viewVars, pc, settings, session, selectedStream, watchId,
                 answers, bridge, playingBound, calls, thrown, nStarts, nStops,
                 nEvents>>

----
Next ==
  \/ startStreaming
  \/ \E a \in Attempts, ok \in BOOLEAN : SettingsResponse(a, ok)
  \/ \E a \in Attempts, ok \in BOOLEAN : InitResponse(a, ok)
  \/ \E a \in Attempts : JanusSuccess(a)
  \/ \E a \in Attempts : JanusError(a)
  \/ \E a \in Attempts : PeerSessionDone(a)
  \/ \E a \in Attempts : PeerSessionFail(a)
  \/ \E a \in Attempts : AttachSuccess(a)
  \/ \E a \in Attempts : AttachError(a)
  \/ \E a \in Attempts, result \in Results, error \in BOOLEAN, jsep \in BOOLEAN :
       onmessage(a, result, error, jsep)
  \/ CreateAnswerSuccess
  \/ CreateAnswerError
  \/ \E a \in Attempts : onremotestream(a)
  \/ BridgeDone
  \/ BridgeFail
  \/ playing
  \/ \E a \in Attempts : oncleanup(a)
  \/ stopStreaming

Spec == Init /\ [][Next]_vars

----
\* The states of the design, as the view shows them: Idle is the state class
\* 'ready', Preparing and Negotiating are 'preparing' (Negotiating once a
\* plugin handle is held), Streaming is 'streaming', Error is 'error'.
Idle == state = "ready"
Negotiating == state = "preparing" /\ streamingPlugIn # NULL
Streaming == state = "streaming"
Busy == state \in {"preparing", "streaming"}

\* attempts whose gateway session was created (none is ever destroyed)
GatewaySessions ==
  {a \in Attempts : pc[a] \in {"peerRequested", "peerFailed", "attaching",
                               "attachFailed", "attached"}}

\* attempts for which the backend opened a peer session (none is ever closed)
PeerSessions == {a \in Attempts : pc[a] \in {"attaching", "attachFailed", "attached"}}

\* attempts holding a plugin handle (none is ever detached)
PluginHandles == {a \in Attempts : pc[a] = "attached"}

\* C1: a start() issued while Preparing, Negotiating or Streaming changes no
\* state and issues no backend or gateway request, so at most one gateway
\* session, one plugin handle and one peer session exist at a time.
C1_SingleFlight ==
  /\ [][(startStreaming /\ Busy) => (calls' = calls /\ UNCHANGED viewVars)]_vars
  /\ [](/\ Cardinality(GatewaySessions) <= 1
        /\ Cardinality(PluginHandles) <= 1
        /\ Cardinality(PeerSessions) <= 1)

\* C2: a stop() issued while Idle changes neither the state nor any session
\* field, throws nothing and issues no request; only the click is counted.
C2_StopWhileIdleIsNoOp ==
  [][(stopStreaming /\ Idle) =>
       (/\ calls' = calls
        /\ thrown' = thrown
        /\ UNCHANGED <<viewVars, pc, answers, bridge, playingBound>>)]_vars

\* C2 witness: stop() has been called and the view is (still) Idle
C2_StoppedWhileIdle == Idle /\ nStops > 0

\* C4: after a single start in which every request succeeded, an offer was
\* received and answered, the remote stream arrived and the playing signal
\* fired, the watch and start requests were sent and the state is Streaming.
HappyPathDone ==
  /\ nStarts = 1 /\ nStops = 0
  /\ pc[1] = "attached"
  /\ calls["createAnswer"] >= 1 /\ answers = 0 /\ "createAnswerError" \notin thrown
  /\ playingBound >= 1 /\ bridge = 0 /\ "bridgeFail" \notin seen
  /\ "playing" \in seen
  /\ calls["stop"] = 0

C4_HappyPath ==
  HappyPathDone =>
    (calls["watch"] >= 1 /\ calls["start"] >= 1 /\ Streaming)

\* C5: when a message with result.status = "stopped" arrives while Streaming,
\* the stop request is sent, the plugin handle is released and
\* closePeerSession is called (the state then returning to Idle).
C5_RemoteStop ==
  [][(Streaming /\ \E a \in Attempts, error \in BOOLEAN, jsep \in BOOLEAN :
                     onmessage(a, "stopped", error, jsep))
       => (/\ calls'["stop"] = calls["stop"] + 1
           /\ calls'["hangup"] = calls["hangup"] + 1
           /\ calls'["closePeerSession"] = calls["closePeerSession"] + 1)]_vars

\* C6: when the plugin attach of the only attempt has failed, the state is
\* Error, the PeerSessionId is cleared and no watch or start request was sent.
C6_AttachFailure ==
  (nStarts = 1 /\ pc[1] = "attachFailed") =>
    (/\ state = "error"
     /\ localSessionId = NULL
     /\ calls["watch"] = 0 /\ calls["start"] = 0)

\* C7: a cleanup notification arriving while Negotiating makes the
\* coordinator call closePeerSession with the held PeerSessionId.
C7_GatewayCleanup ==
  [][(Negotiating /\ localSessionId # NULL /\ \E a \in Attempts : oncleanup(a))
       => calls'["closePeerSession"] = calls["closePeerSession"] + 1]_vars

\* C8: once a stop() called in Streaming has sent its stop request and hung
\* up, a further stop() of the same session performs no network call.
C8_StopIdempotent ==
  [][(stopStreaming /\ nStarts = 1 /\ Streaming /\ "stopInStreaming" \in seen)
       => calls' = calls]_vars

\* C9: stop() never fails on a missing plugin handle, in any reachable state.
C9_StopNeverThrows == "stopStreaming" \notin thrown

\* C10: when one of the two initial requests of the only attempt has failed,
\* no later step was performed and the state is Error.
C10_JoinFailure ==
  (nStarts = 1 /\ pc[1] = "joinFailed") =>
    (/\ calls["connect"] = 0 /\ calls["startPeerSession"] = 0
     /\ state = "error")

\* C11: the state is Streaming only after the remote stream has arrived, its
\* startStreamingBridge request has succeeded and the playing signal has
\* fired (stated for runs with a single remote stream).
C11_StreamingAfterBridgeAndPlaying ==
  (Streaming /\ playingBound = 1) =>
    (/\ calls["startStreamingBridge"] = 1
     /\ bridge = 0 /\ "bridgeFail" \notin seen
     /\ "playing" \in seen)

\* C12: once the startStreamingBridge request of the only remote stream of
\* the only attempt has failed, the state is Error, whatever the order of
\* the failure and the playing signal.
C12_BridgeFailureIsError ==
  (nStarts = 1 /\ playingBound = 1 /\ "bridgeFail" \in seen) => state = "error"

\* no request of the coordinator is outstanding: nothing it waits for can
\* still arrive in answer to something it sent
NothingOutstanding ==
  /\ answers = 0 /\ bridge = 0
  /\ \A a \in Attempts :
       /\ pc[a] \notin {"join", "connecting", "peerRequested", "attaching"}
       /\ settings[a] # "pending" /\ session[a] # "pending"

\* C13: once stop() has been called in Streaming (a non-Idle state) and has
\* sent its stop request, the coordinator reaches Idle whether
\* closePeerSession succeeds or fails: when the gateway's cleanup notification
\* has been delivered and no request is outstanding any more, the state is
\* Idle.
C13_StopReachesIdle ==
  (/\ nStarts = 1 /\ "stopInStreaming" \in seen
   /\ "cleanup" \in seen /\ NothingOutstanding)
    => Idle

\* C14: when start-peer-session of the only attempt has failed, the state
\* is Error, the PeerSessionId is empty, the gateway session is closed and
\* no attach was requested.
C14_PeerSessionFailure ==
  (nStarts = 1 /\ pc[1] = "peerFailed") =>
    (/\ state = "error"
     /\ localSessionId = NULL
     /\ GatewaySessions = {}
     /\ calls["attach"] = 0)

\* an inbound message with a non-null error field is delivered
ErrorMessage(result) ==
  \E a \in Attempts, jsep \in BOOLEAN : onmessage(a, result, TRUE, jsep)

\* the step runs the body of stopStreaming: stop request and hangup
StopInvoked ==
  /\ calls'["stop"] = calls["stop"] + 1
  /\ calls'["hangup"] = calls["hangup"] + 1

\* C15 as claimed: every inbound message that carries a non-null error field
\* causes stop() to be invoked, whatever else it carries.
C15_ErrorAlwaysStops ==
  [][(\E result \in Results : ErrorMessage(result)) => StopInvoked]_vars

\* C15 as amended: an inbound message with a non-null error field causes
\* stop() to be invoked when it carries no result field; when it carries a
\* result field, stop() is invoked exactly if its status is "stopped".
C15_ErrorStopsUnlessResult ==
  [][/\ ErrorMessage("none") => (StopInvoked /\ answers' = answers)
     /\ ErrorMessage("stopped") => StopInvoked
     /\ ErrorMessage("other") => calls'["stop"] = calls["stop"]]_vars

\* C15 witness: an error message without result was handled and stop() ran
C15_ErrorHandled == "errorNotice" \in seen /\ calls["stop"] >= 1

\* C16: when createAnswer fails for an offer, the state becomes Error and no
\* start request is sent for that offer; when it succeeds, exactly one start
\* request is sent.
C16_AnswerOutcome ==
  [][/\ CreateAnswerError =>
          (state' = "error" /\ calls'["start"] = calls["start"])
     /\ CreateAnswerSuccess => calls'["start"] = calls["start"] + 1]_vars

\* C17: the steps after the join occur in the order attach, watch, SDP
\* exchange, remote stream, bridge start, playing: attach is requested only
\* once the PeerSessionId is held, watch is sent only after an attach
\* succeeded, start only after watch was sent and an offer received, the
\* bridge is started only after a remote stream arrived, and the state is
\* Streaming only after that.
C17_StepOrder ==
  /\ calls["attach"] >= 1 => localSessionId # NULL
  /\ calls["watch"] >= 1 => PluginHandles # {}
  /\ calls["start"] >= 1 => (calls["watch"] >= 1 /\ calls["createAnswer"] >= 1)
  /\ calls["startStreamingBridge"] >= 1 => playingBound >= 1
  /\ Streaming => calls["startStreamingBridge"] >= 1

\* C18: whenever the coordinator is Idle or Error, the PeerSessionId, the
\* PluginHandle and the GatewaySession are all empty.
C18_NoSessionDataWhenIdleOrError ==
  (Idle \/ state = "error") =>
    (/\ localSessionId = NULL
     /\ streamingPlugIn = NULL
     /\ GatewaySessions = {})

\* C19: when the gateway connect of the only attempt has failed, the state
\* is Error and no backend or gateway request was issued after the failure
\* (two initial requests and the connect, nothing else).
C19_ConnectFailure ==
  (nStarts = 1 /\ pc[1] = "connectFailed") =>
    (/\ state = "error"
     /\ \A op \in Ops :
          calls[op] = IF op \in {"fetchStreamingSettings", "initGatewaySession",
                                 "connect"} THEN 1 ELSE 0)

\* C21: once stop() has sent the stop request and hung up the only plugin
\* handle, no watch or start request and no createAnswer follows on it; in
\* particular a message with result.status = "stopped" and an SDP offer,
\* whose stop request is sent, does not cause createAnswer.
C21_NoRequestsAfterStop ==
  [][/\ (nStarts = 1 /\ calls["hangup"] >= 1) =>
          (/\ calls'["watch"] = calls["watch"]
           /\ calls'["start"] = calls["start"]
           /\ calls'["createAnswer"] = calls["createAnswer"])
     /\ (/\ StopGuard /\ ~StopThrows
         /\ \E a \in Attempts, error \in BOOLEAN : onmessage(a, "stopped", error, TRUE))
          => calls'["createAnswer"] = calls["createAnswer"]]_vars

====
